---- MODULE Spec2Model ----
(***************************************************************************)
(* ezenviron: persistent Windows user environment variables.               *)
(*                                                                         *)
(* The model follows src/ezenviron/__init__.py.  A string is a sequence of *)
(* one-character strings, a Python dict is a sequence of <<key, value>>    *)
(* pairs in insertion order with pairwise distinct keys, the registry      *)
(* tiers are such dicts whose names are distinct ignoring case, and        *)
(* os.environ is such a dict whose keys are upper-cased on every write.    *)
(***************************************************************************)
EXTENDS Integers, Sequences, FiniteSets, TLC

VARIABLES
    platform,      \* platform.system()
    machineAvail,  \* HKLM ...\Session Manager\Environment: "ok", "missing", "denied"
    machineTier,   \* its values, in enumeration order
    userAvail,     \* HKCU\Environment: "ok", "missing", "denied"
    userTier,      \* its values, in enumeration order
    liveEnv,       \* os.environ
    notified,      \* number of WM_SETTINGCHANGE broadcasts sent so far
    calls,         \* number of set, load_dotenv and external writes so far
    reloads,       \* number of reload() calls made by the caller so far
    last,          \* record of the last entry-point call and its outcome
    template,      \* input s of _expand_percent_vars
    lookup,        \* input mapping of _expand_percent_vars
    expanded,      \* its result
    xpc            \* "idle", "ready" (inputs chosen), "done" (result computed)

vars == <<platform, machineAvail, machineTier, userAvail, userTier, liveEnv,
          notified, calls, reloads, last, template, lookup, expanded, xpc>>

(***************************************************************************)
(* Bounds                                                                  *)
(***************************************************************************)
MaxCalls == 1      \* set, load_dotenv and external writes per behaviour
MaxReloads == 2    \* reload() calls by the caller per behaviour
MaxTier == 1       \* values per registry key in the initial state
MaxLive == 1       \* variables in the initial process environment
MaxLines == 1      \* assignments in a .env file
MaxLen == 4        \* length of a template given to _expand_percent_vars
MaxLookup == 2     \* entries of a mapping given to _expand_percent_vars

(***************************************************************************)
(* Strings                                                                 *)
(***************************************************************************)
NameA == <<"A">>
Namea == <<"a">>
NameB == <<"B">>
TEMP == <<"T", "E", "M", "P">>
NameTemp == <<"T", "e", "m", "p">>
TMP == <<"T", "M", "P">>

\* str.upper() on one character (ASCII letters of the model's alphabet)
UpperChar(c) ==
    CASE c = "a" -> "A"
      [] c = "b" -> "B"
      [] c = "e" -> "E"
      [] c = "m" -> "M"
      [] c = "p" -> "P"
      [] c = "x" -> "X"
      [] c = "y" -> "Y"
      [] OTHER -> c

Upper(s) == [i \in 1..Len(s) |-> UpperChar(s[i])]

\* the regular expression's class [A-Za-z0-9_]
IsNameChar(c) ==
    c \in {"A", "B", "E", "M", "P", "T", "X", "Y", "a", "b", "e", "m", "p", "x", "y", "_", "0"}

(***************************************************************************)
(* Python dicts: insertion-ordered, keys compared exactly                  *)
(***************************************************************************)
Keys(d) == {d[i][1] : i \in 1..Len(d)}

Has(d, k) == \E i \in 1..Len(d) : d[i][1] = k

\* d.get(k): the value, or None
None == <<"None">>

Get(d, k) ==
    IF Has(d, k) THEN d[CHOOSE i \in 1..Len(d) : d[i][1] = k][2] ELSE None

\* d[k] = v: an existing key keeps its position
Put(d, k, v) ==
    IF Has(d, k)
    THEN [i \in 1..Len(d) |-> IF d[i][1] = k THEN <<k, v>> ELSE d[i]]
    ELSE Append(d, <<k, v>>)

RECURSIVE Update(_, _)
\* d.update(e), also {**d, **e}
Update(d, e) ==
    IF e = <<>> THEN d ELSE Update(Put(d, Head(e)[1], Head(e)[2]), Tail(e))

(***************************************************************************)
(* Platform stores                                                         *)
(***************************************************************************)
\* os.environ[key] on Windows: the key is upper-cased (encodekey)
EnvironHas(env, key) == Has(env, Upper(key))

EnvironGet(env, key) == Get(env, Upper(key))

\* os.environ[key] = value
EnvironSet(env, key, value) == Put(env, Upper(key), value)

\* a registry key holds one value per name, names compared ignoring case;
\* winreg.SetValueEx / [Environment]::SetEnvironmentVariable(.., 'User')
RegSetValue(tier, key, value) ==
    IF \E i \in 1..Len(tier) : Upper(tier[i][1]) = Upper(key)
    THEN [i \in 1..Len(tier) |->
            IF Upper(tier[i][1]) = Upper(key) THEN <<tier[i][1], value>> ELSE tier[i]]
    ELSE Append(tier, <<key, value>>)

(***************************************************************************)
(* reload._expand_percent_vars: re.sub(r"%([A-Za-z0-9_]+)%", repl, s)      *)
(***************************************************************************)
\* the index after the longest run of name characters that starts at i
NameRunEnd(s, i) ==
    CHOOSE j \in i..(Len(s) + 1) :
        /\ \A k \in i..(j - 1) : IsNameChar(s[k])
        /\ (j > Len(s) \/ ~IsNameChar(s[j]))

\* the pattern matches at i: '%', one or more name characters, '%'
MatchesAt(s, i) ==
    /\ s[i] = "%"
    /\ NameRunEnd(s, i + 1) > i + 1
    /\ NameRunEnd(s, i + 1) <= Len(s)
    /\ s[NameRunEnd(s, i + 1)] = "%"

\* repl with the names compared exactly
replExact(name, token, mapping) ==
    IF \E i \in 1..Len(mapping) : mapping[i][1] = name
    THEN mapping[CHOOSE i \in 1..Len(mapping) : mapping[i][1] = name][2]
    ELSE token

\* repl(m): the value of the first key of the mapping that equals the name
\* ignoring case, else the token itself
repl(name, token, mapping) ==
    IF \E i \in 1..Len(mapping) : Upper(mapping[i][1]) = Upper(name)
    THEN mapping[CHOOSE i \in 1..Len(mapping) :
                    /\ Upper(mapping[i][1]) = Upper(name)
                    /\ \A j \in 1..(i - 1) : Upper(mapping[j][1]) # Upper(name)][2]
    ELSE token

RECURSIVE SubFrom(_, _, _)
\* re.sub from index i on: leftmost matches, replaced text is not scanned again
SubFrom(s, i, mapping) ==
    IF i > Len(s) THEN <<>>
    ELSE IF MatchesAt(s, i)
         THEN LET e == NameRunEnd(s, i + 1)
              IN  repl(SubSeq(s, i + 1, e - 1), SubSeq(s, i, e), mapping)
                      \o SubFrom(s, e + 1, mapping)
         ELSE <<s[i]>> \o SubFrom(s, i + 1, mapping)

_expand_percent_vars(s, mapping) == SubFrom(s, 1, mapping)

(***************************************************************************)
(* os.path.expandvars (ntpath) restricted to '%': "%%" is a literal '%',   *)
(* %var% is os.environ[var] when set and is left alone when not, an        *)
(* unpaired '%' and what follows it are copied                             *)
(***************************************************************************)
\* the index of the next '%' at or after i, or 0
NextPercent(s, i) ==
    IF \E j \in i..Len(s) : s[j] = "%"
    THEN CHOOSE j \in i..Len(s) : s[j] = "%" /\ \A k \in i..(j - 1) : s[k] # "%"
    ELSE 0

RECURSIVE ExpandVarsFrom(_, _, _)
ExpandVarsFrom(s, i, env) ==
    IF i > Len(s) THEN <<>>
    ELSE IF s[i] # "%" THEN <<s[i]>> \o ExpandVarsFrom(s, i + 1, env)
    ELSE IF i < Len(s) /\ s[i + 1] = "%" THEN <<"%">> \o ExpandVarsFrom(s, i + 2, env)
    ELSE LET j == NextPercent(s, i + 1)
         IN  IF j = 0 THEN SubSeq(s, i, Len(s))
             ELSE LET var == SubSeq(s, i + 1, j - 1)
                  IN  (IF EnvironHas(env, var) THEN EnvironGet(env, var)
                       ELSE SubSeq(s, i, j))
                          \o ExpandVarsFrom(s, j + 1, env)

expandvars(s, env) == ExpandVarsFrom(s, 1, env)

(***************************************************************************)
(* reload()                                                                *)
(***************************************************************************)
\* _ensure_windows(): TRUE when it raises RuntimeError
_ensure_windows(plat) == plat # "Windows"

\* reload._read_registry_env: only FileNotFoundError from OpenKey is caught,
\* any other OSError (access denied) leaves the function
_read_registry_env(avail, tier) ==
    CASE avail = "ok" -> [raised |-> "none", values |-> Update(<<>>, tier)]
      [] avail = "missing" -> [raised |-> "none", values |-> <<>>]
      [] OTHER -> [raised |-> "PermissionError", values |-> <<>>]

\* merged = {}; merged.update(machine_env); merged.update(user_env)
Merge(machine_env, user_env) == Update(Update(<<>>, machine_env), user_env)

\* one round of "for var in ("TEMP", "TMP")"
ExpandWellKnown(merged, var, machine_env, user_env, current_env, env) ==
    IF Has(merged, var)
    THEN Put(merged, var,
             _expand_percent_vars(expandvars(Get(merged, var), env),
                                  Update(Update(Update(<<>>, machine_env), user_env),
                                         current_env)))
    ELSE merged

RECURSIVE ApplyMergedSync(_, _, _, _, _)
\* the loop, followed by the removal of every variable that merged does not name
ApplyMergedSync(merged, i, current_env, env, updated_vars) ==
    IF i > Len(merged)
    THEN LET Named(e) == \E k \in 1..Len(merged) : Upper(merged[k][1]) = e[1]
         IN  <<SelectSeq(env, Named), updated_vars>>
    ELSE LET key == merged[i][1]
             value == merged[i][2]
         IN  IF ~Has(current_env, key) \/ Get(current_env, key) # value
             THEN ApplyMergedSync(merged, i + 1, current_env,
                                  EnvironSet(env, key, value), Put(updated_vars, key, value))
             ELSE ApplyMergedSync(merged, i + 1, current_env, env, updated_vars)

RECURSIVE ApplyMerged(_, _, _, _, _)
\* for key, value in merged.items(): ... from entry i on; the result is
\* <<os.environ, updated_vars>>
ApplyMerged(merged, i, current_env, env, updated_vars) ==
    IF i > Len(merged) THEN <<env, updated_vars>>
    ELSE LET key == merged[i][1]
             value == merged[i][2]
         IN  IF ~Has(current_env, key) \/ Get(current_env, key) # value
             THEN ApplyMerged(merged, i + 1, current_env,
                              EnvironSet(env, key, value), Put(updated_vars, key, value))
             ELSE ApplyMerged(merged, i + 1, current_env, env, updated_vars)

\* what reload() hands back: [raised, env (os.environ afterwards), updated
\* (the returned dict), merged (the merged mapping that was applied)]
ReloadRaised(exc, env) ==
    [raised |-> exc, env |-> env, updated |-> <<>>, merged |-> <<>>]

ReloadReturned(merged, applied) ==
    [raised |-> "none", env |-> applied[1], updated |-> applied[2], merged |-> merged]

\* lines 287-292 on the merged mapping after its TEMP/TMP expansion
ApplyAndReturn(merged, current_env) ==
    ReloadReturned(merged, ApplyMerged(merged, 1, current_env, current_env, <<>>))

\* lines 263-292 once both registry keys were read
Reconcile(machine_env, user_env, current_env) ==
    ApplyAndReturn(
        ExpandWellKnown(
            ExpandWellKnown(Merge(machine_env, user_env), TEMP,
                            machine_env, user_env, current_env, current_env),
            TMP, machine_env, user_env, current_env, current_env),
        current_env)

\* the two reads: an exception of the first leaves reload() before the second
AfterReads(m, u, env) ==
    IF m.raised # "none" THEN ReloadRaised(m.raised, env)
    ELSE IF u.raised # "none" THEN ReloadRaised(u.raised, env)
    ELSE Reconcile(m.values, u.values, env)

\* reload()
reload(plat, mAvail, mTier, uAvail, uTier, env) ==
    IF _ensure_windows(plat) THEN ReloadRaised("RuntimeError", env)
    ELSE AfterReads(_read_registry_env(mAvail, mTier),
                    _read_registry_env(uAvail, uTier), env)

(***************************************************************************)
(* set()                                                                   *)
(***************************************************************************)
\* The store and process state an entry point works on
World(plat, mAvail, mTier, uAvail, uTier, env, sent) ==
    [platform |-> plat, machineAvail |-> mAvail, machineTier |-> mTier,
     userAvail |-> uAvail, userTier |-> uTier, liveEnv |-> env, notified |-> sent]

\* the note set._post_set_reload writes to stderr: the number of names of
\* the returned dict other than key, 0 when nothing is written
OtherUpdates(updated, key) ==
    IF Len(updated) > 1 /\ {i \in 1..Len(updated) : updated[i][1] # key} # {}
    THEN Cardinality({i \in 1..Len(updated) : updated[i][1] # key})
    ELSE 0

\* set._post_set_reload after reload() ended as r: an exception is caught
AfterReload(r, key) ==
    IF r.raised # "none"
    THEN [env |-> r.env, reloaded |-> "failed", updated |-> <<>>, merged |-> <<>>,
          note |-> 0]
    ELSE [env |-> r.env, reloaded |-> "ok", updated |-> r.updated, merged |-> r.merged,
          note |-> OtherUpdates(r.updated, key)]

\* set._post_set_reload: [env, reloaded ("skipped", "ok", "failed"), updated,
\* merged, note]
_post_set_reload(w, key, auto_reload) ==
    IF ~auto_reload
    THEN [env |-> w.liveEnv, reloaded |-> "skipped", updated |-> <<>>,
          merged |-> <<>>, note |-> 0]
    ELSE AfterReload(reload(w.platform, w.machineAvail, w.machineTier,
                            w.userAvail, w.userTier, w.liveEnv), key)

\* the value is persisted in HKCU\Environment (the key is created when absent)
Persist(w, key, value, sent) ==
    [w EXCEPT !.userTier = RegSetValue(w.userTier, key, value),
              !.userAvail = IF w.userAvail = "missing" THEN "ok" ELSE w.userAvail,
              !.notified = w.notified + sent]

\* os.environ[key] = value
Assign(w, key, value) == [w EXCEPT !.liveEnv = EnvironSet(w.liveEnv, key, value)]

\* what set() hands back when it returns r after a write and the reload p
SetReturns(w, r, how, p) ==
    [w |-> [w EXCEPT !.liveEnv = p.env], raised |-> "none", ret |-> r,
     wrote |-> how, fallback |-> IF how = "registry" THEN "ok" ELSE "none",
     reloaded |-> p.reloaded, updated |-> p.updated, merged |-> p.merged,
     note |-> p.note]

\* a failed reload turned into a failed set()
SetIfReloaded(w, how, p) == SetReturns(w, p.reloaded # "failed", how, p)

\* after a successful write, with a failed reload turned into a failed set()
AfterWriteStrict(w, key, value, auto_reload, how) ==
    SetIfReloaded(w, how, _post_set_reload(Assign(w, key, value), key, auto_reload))

\* after a successful write: os.environ[key] = value; _post_set_reload(); return True
AfterWrite(w, key, value, auto_reload, how) ==
    SetReturns(w, TRUE, how, _post_set_reload(Assign(w, key, value), key, auto_reload))

\* what set() hands back when no write succeeded: it raised exc, or returned
\* False with the fallback attempted ("fail") or not ("none")
SetStopped(w, exc, fb) ==
    [w |-> w, raised |-> exc, ret |-> FALSE, wrote |-> "none", fallback |-> fb,
     reloaded |-> "none", updated |-> <<>>, merged |-> <<>>, note |-> 0]

\* set(key, value, auto_reload).  ps is what _run_powershell does: "ok",
\* "notfound" (FileNotFoundError: neither powershell nor pwsh on PATH) or
\* "error" (CalledProcessError); reg is what the winreg write does: "ok", "fail".
\* [Environment]::SetEnvironmentVariable with target 'User' itself broadcasts
\* WM_SETTINGCHANGE (module docstring); the registry write does not, and
\* _broadcast_environment_change_ps is never called.
set(w, key, value, auto_reload, ps, reg) ==
    IF _ensure_windows(w.platform) THEN SetStopped(w, "RuntimeError", "none")
    ELSE IF ps = "ok"
    THEN AfterWrite(Persist(w, key, value, 1), key, value, auto_reload, "powershell")
    ELSE IF ps = "notfound"
    THEN IF reg = "ok"
         THEN AfterWrite(Persist(w, key, value, 0), key, value, auto_reload, "registry")
         ELSE SetStopped(w, "none", "fail")
    ELSE SetStopped(w, "none", "none")

(***************************************************************************)
(* load_dotenv()                                                           *)
(***************************************************************************)
\* results[key] = ok for the outcome r of set(); an exception of set() is
\* caught by "except Exception" and ends the loop.  acc is [w, results, caught]
Recorded(acc, key, r) ==
    IF r.raised # "none"
    THEN [w |-> r.w, results |-> acc.results, caught |-> r.raised]
    ELSE [w |-> r.w, results |-> Put(acc.results, key, r.ret), caught |-> "none"]

\* one assignment of the file given to set(); out is what the two write paths
\* do for it
LoadLine(acc, line, out) ==
    IF acc.caught # "none" THEN acc
    ELSE Recorded(acc, line[1], set(acc.w, line[1], line[2], TRUE, out[1], out[2]))

RECURSIVE LoadLines(_, _, _)
\* the loop over the assignments of the file
LoadLines(acc, lines, outs) ==
    IF lines = <<>> THEN acc
    ELSE LoadLines(LoadLine(acc, Head(lines), Head(outs)), Tail(lines), Tail(outs))

\* load_dotenv(path): found is whether open(path) succeeds
load_dotenv(w, found, lines, outs) ==
    IF ~found THEN [w |-> w, results |-> <<>>, caught |-> "FileNotFoundError"]
    ELSE LoadLines([w |-> w, results |-> <<>>, caught |-> "none"], lines, outs)

(***************************************************************************)
(* get()                                                                   *)
(***************************************************************************)
\* get(key): os.environ.get(key)
get(env, key) == EnvironGet(env, key)

(***************************************************************************)
(* Input domains                                                           *)
(***************************************************************************)
ValX == <<"x">>
ValY == <<"y">>
ValRefA == <<"%", "A", "%">>

Names == {NameA, Namea, TEMP, NameTemp}
Values == {ValX, ValY, ValRefA}

\* dicts of at most n entries over the given keys, no two keys equal ignoring case
DictsUpTo(n, keys, values) ==
    {d \in UNION {[1..m -> keys \X values] : m \in 0..n} :
        \A i, j \in 1..Len(d) : i # j => Upper(d[i][1]) # Upper(d[j][1])}

SeqsUpTo(n, S) == UNION {[1..m -> S] : m \in 0..n}

WriteOutcomes == {<<"ok", "fail">>, <<"error", "fail">>,
                  <<"notfound", "ok">>, <<"notfound", "fail">>}

\* the assignments of a .env file, each with what the two writes do for it
DotenvFiles == SeqsUpTo(MaxLines, (Names \X Values) \X WriteOutcomes)

NoCall ==
    [call |-> "none", key |-> <<>>, value |-> <<>>, auto |-> FALSE,
     ps |-> "none", reg |-> "none", raised |-> "none", ret |-> FALSE, wrote |-> "none", fallback |-> "none",
     reloaded |-> "none", updated |-> <<>>, merged |-> <<>>, note |-> 0,
     preLive |-> <<>>, preUser |-> <<>>, preNotified |-> 0, again |-> FALSE,
     results |-> <<>>, caught |-> "none"]

(***************************************************************************)
(* The program                                                             *)
(***************************************************************************)
TheWorld == World(platform, machineAvail, machineTier, userAvail, userTier,
                  liveEnv, notified)

Idle == /\ xpc = "idle" /\ template = <<>> /\ lookup = <<>> /\ expanded = <<>>

\* A process starts on some host: on Windows with some registry contents and
\* an inherited environment, elsewhere with no registry at all
Init ==
    /\ platform \in {"Windows", "Linux"}
    /\ machineTier \in DictsUpTo(MaxTier, Names, Values)
    /\ userTier \in DictsUpTo(MaxTier, Names, Values)
    /\ machineAvail \in {"ok", "missing", "denied"}
    /\ userAvail \in {"ok", "missing", "denied"}
    /\ (machineAvail # "ok" => machineTier = <<>>)
    /\ (userAvail # "ok" => userTier = <<>>)
    /\ (platform # "Windows" => machineAvail = "missing" /\ userAvail = "missing")
    /\ liveEnv \in DictsUpTo(MaxLive, {Upper(n) : n \in Names}, Values)
    /\ notified = 0
    /\ calls = 0
    /\ reloads = 0
    /\ last = NoCall
    /\ Idle

StartCall ==
    [NoCall EXCEPT !.preLive = liveEnv, !.preUser = userTier, !.preNotified = notified]

\* the caller invokes reload()
Reload ==
    /\ xpc = "idle" /\ reloads < MaxReloads
    /\ \E r \in {reload(platform, machineAvail, machineTier, userAvail, userTier, liveEnv)} :
           /\ liveEnv' = r.env
           /\ last' = [StartCall EXCEPT !.call = "reload", !.raised = r.raised,
                          !.updated = r.updated, !.merged = r.merged,
                          !.again = (last.call = "reload" /\ last.raised = "none")]
    /\ reloads' = reloads + 1
    /\ UNCHANGED <<platform, machineAvail, machineTier, userAvail, userTier, notified, calls,
                   template, lookup, expanded, xpc>>

\* the caller invokes set(key, value, auto_reload)
Set ==
    /\ xpc = "idle" /\ calls < MaxCalls
    /\ \E key \in Names, value \in Values, auto_reload \in BOOLEAN, o \in WriteOutcomes :
         \E r \in {set(TheWorld, key, value, auto_reload, o[1], o[2])} :
             /\ userTier' = r.w.userTier
             /\ userAvail' = r.w.userAvail
             /\ liveEnv' = r.w.liveEnv
             /\ notified' = r.w.notified
             /\ last' = [StartCall EXCEPT !.call = "set", !.key = key, !.value = value,
                            !.auto = auto_reload, !.ps = o[1], !.reg = o[2],
                            !.raised = r.raised, !.ret = r.ret,
                            !.wrote = r.wrote, !.fallback = r.fallback,
                            !.reloaded = r.reloaded, !.updated = r.updated,
                            !.merged = r.merged, !.note = r.note]
    /\ calls' = calls + 1
    /\ UNCHANGED <<platform, machineAvail, machineTier, reloads, template, lookup, expanded, xpc>>

\* the caller invokes load_dotenv(path)
LoadDotenv ==
    /\ xpc = "idle" /\ calls < MaxCalls
    /\ \E found \in BOOLEAN, file \in DotenvFiles :
           /\ (~found => file = <<>>)
           /\ \E r \in {load_dotenv(TheWorld, found,
                                     [i \in 1..Len(file) |-> file[i][1]],
                                     [i \in 1..Len(file) |-> file[i][2]])} :
                  /\ userTier' = r.w.userTier
                  /\ userAvail' = r.w.userAvail
                  /\ liveEnv' = r.w.liveEnv
                  /\ notified' = r.w.notified
                  /\ last' = [StartCall EXCEPT !.call = "load_dotenv",
                                 !.results = r.results, !.caught = r.caught]
    /\ calls' = calls + 1
    /\ UNCHANGED <<platform, machineAvail, machineTier, reloads, template, lookup, expanded, xpc>>

\* another program writes a value of one registry key
ExternalWrite ==
    /\ xpc = "idle" /\ calls < MaxCalls /\ platform = "Windows"
    /\ \E key \in Names, value \in Values :
         \/ /\ machineAvail = "ok"
            /\ machineTier' = RegSetValue(machineTier, key, value)
            /\ UNCHANGED userTier
         \/ /\ userAvail = "ok"
            /\ userTier' = RegSetValue(userTier, key, value)
            /\ UNCHANGED machineTier
    /\ last' = [StartCall EXCEPT !.call = "external"]
    /\ calls' = calls + 1
    /\ UNCHANGED <<platform, machineAvail, userAvail, liveEnv, notified, reloads,
                   template, lookup, expanded, xpc>>

Next == Reload \/ Set \/ LoadDotenv \/ ExternalWrite

Spec == Init /\ [][Next]_vars

(***************************************************************************)
(* _expand_percent_vars on its own: the inputs are chosen, then expanded   *)
(***************************************************************************)
Alphabet == {"%", "A", "b", "-"}
LookupKeys == {NameA, Namea, NameB}
LookupValues == {ValX, <<"%", "B", "%">>}

\* Python dicts of at most n entries (keys pairwise distinct as strings)
PyDictsUpTo(n, keys, values) ==
    {d \in UNION {[1..m -> keys \X values] : m \in 0..n} :
        \A i, j \in 1..Len(d) : i # j => d[i][1] # d[j][1]}

InitExpand ==
    /\ platform = "Windows"
    /\ machineAvail = "ok" /\ machineTier = <<>>
    /\ userAvail = "ok" /\ userTier = <<>>
    /\ liveEnv = <<>>
    /\ notified = 0 /\ calls = 0 /\ reloads = 0
    /\ last = NoCall
    /\ template \in SeqsUpTo(MaxLen, Alphabet)
    /\ lookup \in PyDictsUpTo(MaxLookup, LookupKeys, LookupValues)
    /\ expanded = <<>>
    /\ xpc = "ready"

Expand ==
    /\ xpc = "ready"
    /\ expanded' = _expand_percent_vars(template, lookup)
    /\ xpc' = "done"
    /\ UNCHANGED <<platform, machineAvail, machineTier, userAvail, userTier, liveEnv,
                   notified, calls, reloads, last, template, lookup>>

NextExpand == Expand

SpecExpand == InitExpand /\ [][NextExpand]_vars

(***************************************************************************)
(* Properties                                                              *)
(***************************************************************************)
\* names are identified ignoring case
SameName(a, b) == Upper(a) = Upper(b)

HasCI(d, k) == \E i \in 1..Len(d) : SameName(d[i][1], k)

IsWellKnown(k) == SameName(k, TEMP) \/ SameName(k, TMP)

\* the last call was reload() by the caller and it returned its dict
Reloaded == last.call = "reload" /\ last.raised = "none"

\* C1: a reload() that directly follows a reload() that returned, with no
\* change to either tier in between, returns an empty dict and leaves
\* os.environ as it was
C1_ReloadIdempotent ==
    (Reloaded /\ last.again) => (last.updated = <<>> /\ liveEnv = last.preLive)

\* C2: for a name held by both tiers (compared ignoring case; TEMP and TMP,
\* whose values reload rewrites, set aside), merged holds exactly one entry for
\* the name, its value is the user tier's, os.environ holds that value after
\* reload(), and the returned dict does not report the machine tier's value
C2_UserPrecedence ==
    Reloaded =>
        \A i \in 1..Len(machineTier), j \in 1..Len(userTier) :
            (SameName(machineTier[i][1], userTier[j][1]) /\ ~IsWellKnown(userTier[j][1])) =>
                /\ Cardinality({k \in 1..Len(last.merged) :
                                   SameName(last.merged[k][1], userTier[j][1])}) = 1
                /\ \A k \in 1..Len(last.merged) :
                       SameName(last.merged[k][1], userTier[j][1]) =>
                           last.merged[k][2] = userTier[j][2]
                /\ get(liveEnv, userTier[j][1]) = userTier[j][2]
                /\ \A k \in 1..Len(last.updated) :
                       SameName(last.updated[k][1], userTier[j][1]) =>
                           last.updated[k][2] = userTier[j][2]

\* C3: on Windows, when one registry key cannot be opened (absent, or any
\* other failure), reload() raises nothing and os.environ holds every value
\* of the other key (TEMP and TMP set aside)
C3_TierFailureTolerated ==
    (last.call = "reload" /\ platform = "Windows") =>
        /\ last.raised = "none"
        /\ (machineAvail # "ok" /\ userAvail = "ok") =>
               \A j \in 1..Len(userTier) :
                   ~IsWellKnown(userTier[j][1]) =>
                       get(liveEnv, userTier[j][1]) = userTier[j][2]
        /\ (userAvail # "ok" /\ machineAvail = "ok") =>
               \A i \in 1..Len(machineTier) :
                   ~IsWellKnown(machineTier[i][1]) =>
                       get(liveEnv, machineTier[i][1]) = machineTier[i][2]

\* set() returned (it did not raise)
SetReturned == last.call = "set" /\ last.raised = "none"

C5_VisibleAfterSet ==
    (SetReturned /\ last.ret /\ ~IsWellKnown(last.key)) =>
        get(liveEnv, last.key) = last.value

\* C6: the dict reload() returns holds exactly the names of merged that
\* os.environ lacked or held with another value before the call, each with
\* its merged value, and os.environ holds the merged value of every name
C6_DiffExact ==
    Reloaded =>
        /\ \A k \in 1..Len(last.merged) :
               LET key == last.merged[k][1]
                   value == last.merged[k][2]
               IN  /\ (Has(last.updated, key) <=>
                          (~EnvironHas(last.preLive, key) \/ get(last.preLive, key) # value))
                   /\ (Has(last.updated, key) => Get(last.updated, key) = value)
                   /\ get(liveEnv, key) = value
        /\ Keys(last.updated) \subseteq Keys(last.merged)

\* a variable of os.environ before the last call whose name is in neither tier
LiveOnly(i) ==
    /\ ~HasCI(machineTier, last.preLive[i][1])
    /\ ~HasCI(userTier, last.preLive[i][1])

\* C7: a variable that is in os.environ and in neither tier keeps its value
\* across reload(), alone or run by set() and load_dotenv(), and is in no
\* returned dict
C7_LiveOnlyUntouched ==
    \A i \in 1..Len(last.preLive) :
        LiveOnly(i) =>
            /\ EnvironHas(liveEnv, last.preLive[i][1])
            /\ get(liveEnv, last.preLive[i][1]) = last.preLive[i][2]
            /\ ~HasCI(last.updated, last.preLive[i][1])

\* C7, its case: reload() changed os.environ and returned a non-empty dict
\* while a variable of neither tier was present
C7_Witness ==
    /\ Reloaded
    /\ last.updated # <<>>
    /\ liveEnv # last.preLive
    /\ \E i \in 1..Len(last.preLive) : LiveOnly(i)

\* C8: every set() whose write succeeded has sent the environment-changed
\* broadcast by the time it returns
C8_BroadcastAfterWrite ==
    (SetReturned /\ last.wrote # "none") => notified > last.preNotified

\* C9: off Windows, set(), reload() and a load_dotenv() that reaches set()
\* raise RuntimeError before anything is written
C9_UnsupportedPlatform ==
    /\ (platform # "Windows" /\ last.call \in {"set", "reload"}) =>
           (last.raised = "RuntimeError" /\ liveEnv = last.preLive /\ userTier = last.preUser)
    /\ (platform # "Windows" /\ last.call = "load_dotenv" /\ last.caught = "RuntimeError") =>
           last.raised = "RuntimeError"

\* the %NAME% tokens of s: <<i, j>> with '%' at i and at j and one or more
\* name characters in between
Tokens(s) ==
    {t \in (1..Len(s)) \X (1..Len(s)) :
        /\ s[t[1]] = "%" /\ s[t[2]] = "%"
        /\ t[2] > t[1] + 1
        /\ \A k \in (t[1] + 1)..(t[2] - 1) : IsNameChar(s[k])}

\* the tokens one left-to-right pass takes: a token is taken unless the token
\* that ends on its opening '%' was taken
TakenTokens(s) ==
    CHOOSE S \in SUBSET Tokens(s) :
        \A t \in Tokens(s) : (t \in S) <=> ~(\E q \in S : q[2] = t[1])

\* a mapping whose names are pairwise distinct ignoring case
IsEnvironmentMapping(d) ==
    \A i, j \in 1..Len(d) : i # j => ~SameName(d[i][1], d[j][1])

RECURSIVE PassFrom(_, _, _, _)
\* the text of s from i on with every taken token replaced by the value of
\* its name in lk, when lk has the name, and copied when not
PassFrom(s, i, S, lk) ==
    IF i > Len(s) THEN <<>>
    ELSE IF \E t \in S : t[1] = i
    THEN LET t == CHOOSE q \in S : q[1] = i
             name == SubSeq(s, i + 1, t[2] - 1)
         IN  (IF HasCI(lk, name)
              THEN lk[CHOOSE k \in 1..Len(lk) : SameName(lk[k][1], name)][2]
              ELSE SubSeq(s, i, t[2]))
                 \o PassFrom(s, t[2] + 1, S, lk)
    ELSE <<s[i]>> \o PassFrom(s, i + 1, S, lk)

OnePass(s, lk) == PassFrom(s, 1, TakenTokens(s), lk)

OtherKeys == {i \in 1..Len(last.updated) : ~SameName(last.updated[i][1], last.key)}

\* C11: when set(key, value, auto_reload=True) has run its reload and the
\* reload returned its dict, the note set() writes counts the names of that
\* dict other than key when there is at least one, and no note is written
\* when there is none; also when the dict holds one entry and it is not key
C11_ReloadNote ==
    (SetReturned /\ last.auto /\ last.reloaded = "ok") =>
        last.note = Cardinality(OtherKeys)

\* reload() ran to its end in the last call, by the caller or inside set()
ReloadRan == Reloaded \/ (SetReturned /\ last.reloaded = "ok")

\* os.environ as that reload() found it
ReloadSnapshot ==
    IF last.call = "set" THEN EnvironSet(last.preLive, last.key, last.value)
    ELSE last.preLive

\* the entries of d whose names are in none of the later layers
Shadowed(d, later1, later2) ==
    SelectSeq(d, LAMBDA e : ~HasCI(later1, e[1]) /\ ~HasCI(later2, e[1]))

\* the layering machine tier, then user tier, then os.environ, names compared
\* ignoring case and the latest layer that defines a name winning
Layered(machine_env, user_env, current_env) ==
    current_env \o Shadowed(user_env, current_env, <<>>)
                \o Shadowed(machine_env, user_env, current_env)

\* the value the registry holds for a name of merged
TierValue(key) ==
    IF Has(userTier, key) THEN Get(userTier, key) ELSE Get(machineTier, key)

\* the value reload() is to apply for a name of merged: expanded against the
\* layering for TEMP and TMP in any casing, as stored for every other name
ToApply(key) ==
    IF IsWellKnown(key)
    THEN OnePass(TierValue(key), Layered(machineTier, userTier, ReloadSnapshot))
    ELSE TierValue(key)

\* C12: after reload(), a name of merged that is TEMP or TMP ignoring case has
\* in os.environ and in the returned dict its value with each %NAME% resolved,
\* ignoring case, in the machine tier, then the user tier, then os.environ,
\* the latest layer winning; every other name has its value as stored; with
\* machine tier {TEMP: "%A%"}, an empty user tier and os.environ {A: "x"},
\* os.environ[TEMP] becomes "x" and the returned dict has TEMP (stated for
\* the names that merged holds in one casing only)
C12_WellKnownExpanded ==
    ReloadRan =>
        /\ \A k \in 1..Len(last.merged) :
               LET key == last.merged[k][1]
               IN  Cardinality({j \in 1..Len(last.merged) :
                                   SameName(last.merged[j][1], key)}) = 1 =>
                       /\ get(liveEnv, key) = ToApply(key)
                       /\ Has(last.updated, key) => Get(last.updated, key) = ToApply(key)
        /\ (/\ Reloaded
            /\ machineTier = <<<<TEMP, ValRefA>>>>
            /\ userTier = <<>>
            /\ last.preLive = <<<<NameA, ValX>>>>) =>
               (get(liveEnv, TEMP) = ValX /\ Has(last.updated, TEMP))

====
